---- MODULE Spec2Model ----
(***************************************************************************)
(* A model of tmpl-generator: the State Watcher (core/file_monitor.py),    *)
(* the Layer Store and the Compositor (core/mask_manager.py), the Image    *)
(* Canonicalizer and the driving loop.                                     *)
(*                                                                         *)
(* SpecWatcher  : the log file, its external writer and                    *)
(*                FileMonitor.check_for_updates.                           *)
(* SpecFrames   : mask assets on disk, MaskManager.load_static_masks,      *)
(*                MaskManager.load_sequence_frames and get_frame.          *)
(* SpecRender   : the same manager with MaskManager.process_and_save.      *)
(* SpecImage    : ImageProcessor.load_and_resize_image                     *)
(*                (core/image_processor.py) on the images a file can hold. *)
(* SpecMonitor  : TMPLMonitor (core/tmpl_monitor.py): its managers, built  *)
(*                by _initialize_system, and the polling loop run().       *)
(***************************************************************************)
EXTENDS Integers, Sequences, FiniteSets, TLC

VARIABLES
    log,            \* the log file: [exists, lines, mtime]
    last_modified,  \* FileMonitor.last_modified
    last_state,     \* FileMonitor.last_state
    reported,       \* history: the state of the latest changed=True report
    parse_failed,   \* history: the latest read of the log raised
    poll            \* history: the latest step, when it was a poll

VARIABLES
    assets,               \* the mask assets on disk, a set of directory entries
    config,               \* MaskManager.config: [gray_values, gray_indexes]
    phase,                \* how far _initialize_system has taken the manager
    mask_cache,           \* MaskManager.mask_cache
    sequence_frames,      \* MaskManager.sequence_frames
    sequence_max_frames,  \* MaskManager.sequence_max_frames
    total_frames,         \* what load_sequence_frames returned
    results_index,        \* MaskManager.results_index
    returned,             \* history: the numbers of the paths process_and_save returned
    render                \* history: the latest step, when it was a render

VARIABLES
    managers,   \* TMPLMonitor.mask_managers, in the order of mask_configs
    results,    \* the directory ./results: file number -> [owner, image]
    running,    \* where TMPLMonitor is: "new", "running" or "stopped"
    errors,     \* history: run() has caught an exception
    cycle       \* history: the latest step, when it was an iteration of run()

VARIABLES
    image       \* history: a source image and what load_and_resize_image made of it

VARIABLES
    pc,                \* the line of check_for_updates a stepwise poll is at
    sampled_modified,  \* its local current_modified
    read_state,     \* its local current_state
    read_line,      \* history: the number of the line it read
    reports            \* history: the numbers of the lines reported changed=True

watcherVars == <<log, last_modified, last_state, reported, parse_failed, poll>>

managerVars ==
    <<assets, config, phase, mask_cache, sequence_frames, sequence_max_frames,
      total_frames, results_index, returned, render>>

monitorVars == <<managers, results, running, errors, cycle>>

imageVars == <<image>>

pollerVars == <<pc, sampled_modified, read_state, read_line, reports>>

extVars == <<monitorVars, imageVars, pollerVars>>

vars == <<watcherVars, managerVars, extVars>>

(***************************************************************************)
(* Bounds.                                                                 *)
(***************************************************************************)
\* the log holds at most MaxLines lines
MaxLines == 2
\* modification times are 0..MaxTime
MaxTime == 2

\* the asset directory holds at most MaxAssets entries
MaxAssets == 3
\* renders are followed until results_index reaches MaxResults
MaxResults == 2
\* every image of up to MaxSourcePixels pixels is loaded
MaxSourcePixels == 4

Times == 0..MaxTime

(***************************************************************************)
(* Python values, as literal_eval produces them.  One record shape for     *)
(* every kind, so that any two values can be compared.                     *)
(***************************************************************************)
PyNone == [kind |-> "none", n |-> 0, s |-> "", items |-> <<>>]
PyInt(i) == [kind |-> "int", n |-> i, s |-> "", items |-> <<>>]
PyStr(t) == [kind |-> "str", n |-> 0, s |-> t, items |-> <<>>]
PyList(xs) == [kind |-> "list", n |-> 0, s |-> "", items |-> xs]
PyDict(kvs) == [kind |-> "dict", n |-> 0, s |-> "", items |-> kvs]

\* any(v) in the place of bool(v): a list is true when some element is
Truthy_any(v) ==
    CASE v.kind = "none" -> FALSE
      [] v.kind = "int" -> v.n # 0
      [] v.kind = "str" -> v.s # ""
      [] OTHER -> \E i \in 1..Len(v.items) : v.items[i] # PyInt(0)

\* bool(v): None, 0, '' and empty containers are falsy
Truthy(v) ==
    CASE v.kind = "none" -> FALSE
      [] v.kind = "int" -> v.n # 0
      [] v.kind = "str" -> v.s # ""
      [] OTHER -> Len(v.items) > 0

\* a list all of whose elements are integers: the List[int] of the annotations
IsIntList(v) ==
    /\ v.kind = "list"
    /\ \A i \in 1..Len(v.items) : v.items[i].kind = "int"

(***************************************************************************)
(* The text of a line is a sequence of lexical tokens.                     *)
(***************************************************************************)
IntTokens == {"0", "1", "2", "3", "5", "-1"}
StrTokens == {"'a'"}
NameTokens == {"x"}
Space == " "

IntOf(tok) ==
    CASE tok = "0" -> 0
      [] tok = "1" -> 1
      [] tok = "2" -> 2
      [] tok = "3" -> 3
      [] tok = "5" -> 5
      [] tok = "-1" -> -1

\* the text between the quotes of a string literal
StrOf(tok) == CASE tok = "'a'" -> "a"

\* the lines the external writer may append
LineTexts == {
    <<"[", "0", ",", " ", "0", ",", " ", "0", "]">>,
    <<"[", "2", ",", " ", "0", "]">>,
    <<" ", "[", "2", ",", "0", "]", " ">>,
    <<"[", "-1", ",", " ", "0", "]">>,
    <<"[", "1", ",", " ", "x", ",", " ", "3", "]">>,
    <<"[", "1", ",", " ", "'a'", "]">>,
    <<"[", "]">>,
    <<"5">>,
    <<"'a'">>,
    <<"{", "1", ":", " ", "2", "}">>,
    <<>>
}

\* str.strip(): drop leading and trailing whitespace
RECURSIVE LStrip(_)
LStrip(t) == IF Len(t) > 0 /\ Head(t) = Space THEN LStrip(Tail(t)) ELSE t

RECURSIVE RStrip(_)
RStrip(t) ==
    IF Len(t) > 0 /\ t[Len(t)] = Space THEN RStrip(SubSeq(t, 1, Len(t) - 1)) ELSE t

strip(t) == RStrip(LStrip(t))

\* the tokenizer skips whitespace between tokens
RECURSIVE Tokens(_)
Tokens(t) ==
    IF t = <<>> THEN <<>>
    ELSE IF Head(t) = Space THEN Tokens(Tail(t))
    ELSE <<Head(t)>> \o Tokens(Tail(t))

Raised == [ok |-> FALSE, val |-> PyNone]
Returned(v) == [ok |-> TRUE, val |-> v]

IsScalarToken(tok) == tok \in IntTokens \cup StrTokens

ScalarOf(tok) ==
    IF tok \in IntTokens THEN PyInt(IntOf(tok))
    ELSE PyStr(StrOf(tok))

\* the elements of a display "a, b, c" or "a, b, c,": tokens at odd places,
\* commas at even places
ElementsOk(inner) ==
    /\ Len(inner) > 0
    /\ \A i \in 1..Len(inner) :
          IF i % 2 = 1
          THEN inner[i] \in IntTokens \cup StrTokens \cup NameTokens
          ELSE inner[i] = ","

Elements(inner) ==
    [i \in 1..((Len(inner) + 1) \div 2) |-> inner[2 * i - 1]]

\* ast.literal_eval: a syntax error and a name (a malformed node) both raise
literal_eval(text) ==
    LET t == Tokens(text)
        n == Len(t)
    IN  IF n = 0 THEN Raised
        ELSE IF n = 1
        THEN IF IsScalarToken(t[1]) THEN Returned(ScalarOf(t[1])) ELSE Raised
        ELSE IF t[1] = "[" /\ t[n] = "]"
        THEN LET inner == SubSeq(t, 2, n - 1)
                 els == Elements(inner)
             IN  IF inner = <<>> THEN Returned(PyList(<<>>))
                 ELSE IF ElementsOk(inner)
                         /\ \A i \in 1..Len(els) : IsScalarToken(els[i])
                 THEN Returned(PyList([i \in 1..Len(els) |-> ScalarOf(els[i])]))
                 ELSE Raised
        ELSE IF t[1] = "{" /\ t[n] = "}"
        THEN IF n = 2 THEN Returned(PyDict(<<>>))
             ELSE IF n = 5 /\ IsScalarToken(t[2]) /\ t[3] = ":" /\ IsScalarToken(t[4])
             THEN Returned(PyDict(<<ScalarOf(t[2]), ScalarOf(t[4])>>))
             ELSE Raised
        ELSE Raised

(***************************************************************************)
(* FileMonitor.get_last_state                                              *)
(***************************************************************************)
\* the readline loop: keep the line read last
RECURSIVE ReadLastLine(_, _)
ReadLastLine(last_line, rest) ==
    IF rest = <<>> THEN last_line
    ELSE ReadLastLine(Head(rest), Tail(rest))

\* None when anything raises: no file, an empty file (mmap refuses it),
\* or a last line literal_eval rejects
get_last_state(file) ==
    IF ~file.exists \/ file.lines = <<>> THEN PyNone
    ELSE LET last_line == ReadLastLine(Head(file.lines), Tail(file.lines))
             r == literal_eval(strip(last_line))
         IN  IF r.ok THEN r.val ELSE PyNone

(***************************************************************************)
(* Images.  A canonical image is a grid of pixels with values 0 and 255;   *)
(* the grid is cut down to the pixels of Pixels.                           *)
(***************************************************************************)
Pixels == {1, 2}
Images == [Pixels -> {0, 255}]
BlankImage == [p \in Pixels |-> 0]

\* an image or None
NoImage == [some |-> FALSE, img |-> BlankImage]
SomeImage(img) == [some |-> TRUE, img |-> img]

Max(a, b) == IF a >= b THEN a ELSE b
Min(a, b) == IF a <= b THEN a ELSE b

\* cv2.threshold(image, 127, 255, cv2.THRESH_BINARY)
threshold(img) == [p \in DOMAIN img |-> IF img[p] > 127 THEN 255 ELSE 0]

\* np.maximum.reduce(active_frames), and active_frames[0] for one frame
RECURSIVE maximum_reduce(_)
maximum_reduce(frames) ==
    IF Len(frames) = 1 THEN frames[1]
    ELSE LET rest == maximum_reduce(Tail(frames))
         IN  [p \in Pixels |-> Max(frames[1][p], rest[p])]

(***************************************************************************)
(* ImageProcessor.load_and_resize_image.  A decoded image is               *)
(* [h, w, px]: its height, its width and its pixels row by row; the        *)
(* canonical shape TARGET_SIZE = (1280, 3840) is cut down to one column of *)
(* the pixels of Pixels, so that a canonical image is a member of Images.  *)
(***************************************************************************)
\* (height, width)
TARGET_SIZE == <<Cardinality(Pixels), 1>>

BINARY_THRESHOLD == 127

Decoded(h, w, px) == [h |-> h, w |-> w, px |-> px]

\* cv2.threshold(image, BINARY_THRESHOLD, 255, cv2.THRESH_BINARY) of a pixel
binary(v) == IF v > BINARY_THRESHOLD THEN 255 ELSE 0

binarized(px) == [i \in DOMAIN px |-> binary(px[i])]

\* lines 43-45: int(current_h * (target_w / current_w))
new_h_off_by_one(current_h, current_w, target_w) ==
    (current_h * target_w) \div current_w + 1

new_h(current_h, current_w, target_w) == (current_h * target_w) \div current_w

\* cv2.resize(binary, (width, height), interpolation=cv2.INTER_NEAREST):
\* the pixel at (y, x) is the source pixel at (floor(y*h/height),
\* floor(x*w/width))
resize(img, width, height) ==
    Decoded(height, width,
        [i \in 1..(height * width) |->
            img.px[Min((((i - 1) \div width) * img.h) \div height, img.h - 1) * img.w
                   + Min((((i - 1) % width) * img.w) \div width, img.w - 1) + 1]])

\* lines 53-56: the centre rows of an image that is too tall
cropped(img, rows) ==
    Decoded(rows, img.w,
        [i \in 1..(rows * img.w) |-> img.px[((img.h - rows) \div 2) * img.w + i]])

\* lines 57-63: rows of zeros above and below an image that is too short
padded(img, rows) ==
    Decoded(rows, img.w,
        [i \in 1..(rows * img.w) |->
            IF i <= ((rows - img.h) \div 2) * img.w THEN 0
            ELSE IF i > ((rows - img.h) \div 2) * img.w + img.h * img.w THEN 0
            ELSE img.px[i - ((rows - img.h) \div 2) * img.w]])

height_adjusted(img) ==
    IF img.h > TARGET_SIZE[1] THEN cropped(img, TARGET_SIZE[1])
    ELSE IF img.h < TARGET_SIZE[1] THEN padded(img, TARGET_SIZE[1])
    ELSE img

\* lines 65-82: the last threshold and the two verifications
verified(img) ==
    IF <<img.h, img.w>> # TARGET_SIZE THEN NoImage
    ELSE IF \E i \in DOMAIN img.px : binarized(img.px)[i] \notin {0, 255} THEN NoImage
    ELSE SomeImage(binarized(img.px))

\* cv2.resize raises cv2.error for a destination without rows
ResizeRaises(img) == new_h(img.h, img.w, TARGET_SIZE[2]) = 0

\* the image load_and_resize_image returns for a decoded image (None is
\* NoImage), when cv2.resize does not raise
canonical(img) ==
    verified(height_adjusted(
        resize(Decoded(img.h, img.w, binarized(img.px)),
               TARGET_SIZE[2], new_h(img.h, img.w, TARGET_SIZE[2]))))

(***************************************************************************)
(* The asset directory ./landscapes/{id}.  An entry is                     *)
(*   bmp, png : the static mask {id}_{gray}.bmp / .png                     *)
(*   graydir  : the directory {id}_{gray}/                                 *)
(*   seqdir   : the directory {id}_{gray}/{id}_{gray}_{seq}/               *)
(*   frame    : the file {id}_{gray}/{id}_{gray}_{seq}/{stem}.bmp          *)
(* and the content of a file is what ImageProcessor.load_and_resize_image  *)
(* yields for it: a canonical image, or None for a file cv2 cannot decode. *)
(***************************************************************************)
Grays == {10, 20}

\* the trailing segments of directory and file names, in sorted() order
SeqNames == <<"0", "01", "1", "x">>
Stems == <<"1", "2", "3", "x">>

Entry(kind, gray, seq, stem, content) ==
    [kind |-> kind, gray |-> gray, seq |-> seq, stem |-> stem, content |-> content]

SamePath(a, b) ==
    a.kind = b.kind /\ a.gray = b.gray /\ a.seq = b.seq /\ a.stem = b.stem

\* int(text): the number, or ValueError
IsIntText(t) == t \in {"0", "01", "1", "2", "3"}

int(t) ==
    CASE t = "0" -> 0
      [] t = "01" -> 1
      [] t = "1" -> 1
      [] t = "2" -> 2
      [] t = "3" -> 3

\* what a file holds: an image cv2.imread decodes, or none
Unreadable == [some |-> FALSE, img |-> Decoded(0, 0, <<>>)]

\* a file holding the one-column image px
FileOf(px) == SomeImage(Decoded(Len(px), 1, px))

\* ImageProcessor.load_and_resize_image(path), when it returns
load_and_resize_image_as_read(entry) ==
    IF entry.content.some THEN SomeImage(entry.content.img.px) ELSE NoImage

load_and_resize_image(entry) ==
    IF entry.content.some THEN canonical(entry.content.img) ELSE NoImage

\* ImageProcessor.load_and_resize_image(path) raises cv2.error
LoadRaises(entry) == entry.content.some /\ ResizeRaises(entry.content.img)

\* Path.exists() of the static masks and of the directory of a gray value
StaticFile(disk, kind, gray) == {a \in disk : a.kind = kind /\ a.gray = gray}

GrayDirExists(disk, gray) ==
    \E a \in disk : a.gray = gray /\ a.kind \in {"graydir", "seqdir", "frame"}

SeqDirExists(disk, gray, seq) ==
    \E a \in disk : a.gray = gray /\ a.seq = seq /\ a.kind \in {"seqdir", "frame"}

FrameFile(disk, gray, seq, stem) ==
    {a \in disk : a.kind = "frame" /\ a.gray = gray /\ a.seq = seq /\ a.stem = stem}

\* sorted(glob(...)): the names present, in the order of the sorted list names
RECURSIVE Sorted(_, _)
Sorted(names, present) ==
    IF names = <<>> THEN <<>>
    ELSE IF Head(names) \in present
    THEN <<Head(names)>> \o Sorted(Tail(names), present)
    ELSE Sorted(Tail(names), present)

Range(names) == {names[i] : i \in 1..Len(names)}

(***************************************************************************)
(* MaskManager.load_static_masks                                           *)
(***************************************************************************)
\* bmp_path if bmp_path.exists() else png_path; nothing when neither exists
MaskPath(disk, gray) ==
    IF StaticFile(disk, "bmp", gray) # {} THEN StaticFile(disk, "bmp", gray)
    ELSE StaticFile(disk, "png", gray)

RECURSIVE StaticMasks(_, _, _)
StaticMasks(disk, gray_values, cache) ==
    IF gray_values = <<>> THEN cache
    ELSE LET gray_value == Head(gray_values)
             mask_path == MaskPath(disk, gray_value)
             mask == IF mask_path = {} THEN NoImage
                     ELSE load_and_resize_image(CHOOSE a \in mask_path : TRUE)
         IN  StaticMasks(disk, Tail(gray_values),
                 IF mask.some
                 THEN (gray_value :> threshold(mask.img)) @@ cache
                 ELSE cache)

(***************************************************************************)
(* MaskManager.load_sequence_frames                                        *)
(***************************************************************************)
\* the loop over frame_files: [frames, max_frame, loaded_frames]
RECURSIVE LoadFrames(_, _, _, _, _)
LoadFrames(disk, gray, seq, stems, acc) ==
    IF stems = <<>> THEN acc
    ELSE LET stem == Head(stems)
             frame == load_and_resize_image(
                          CHOOSE a \in FrameFile(disk, gray, seq, stem) : TRUE)
         IN  LoadFrames(disk, gray, seq, Tail(stems),
                 IF IsIntText(stem) /\ frame.some
                 THEN [frames |-> (int(stem) :> threshold(frame.img)) @@ acc.frames,
                       max_frame |-> Max(acc.max_frame, int(stem)),
                       loaded_frames |-> acc.loaded_frames + 1]
                 ELSE acc)

\* the loop over seq_dirs: [frames, max_frames, total]
RECURSIVE LoadSequences(_, _, _, _)
LoadSequences(disk, gray, seqs, acc) ==
    IF seqs = <<>> THEN acc
    ELSE LET seq == Head(seqs)
             frame_files ==
                 Sorted(Stems,
                        {st \in Range(Stems) : FrameFile(disk, gray, seq, st) # {}})
             got == LoadFrames(disk, gray, seq, frame_files,
                        [frames |-> <<>>, max_frame |-> 0, loaded_frames |-> 0])
         IN  LoadSequences(disk, gray, Tail(seqs),
                 IF ~IsIntText(seq) THEN acc
                 ELSE [frames |-> (int(seq) :> got.frames) @@ acc.frames,
                       max_frames |->
                           IF got.loaded_frames > 0
                           THEN (int(seq) :> got.max_frame) @@ acc.max_frames
                           ELSE acc.max_frames,
                       total |-> acc.total + got.loaded_frames])

\* the loop over config.gray_values: [frames, max_frames, total]
RECURSIVE LoadGrays(_, _, _)
LoadGrays(disk, gray_values, acc) ==
    IF gray_values = <<>> THEN acc
    ELSE LET gray_value == Head(gray_values)
             seq_dirs ==
                 Sorted(SeqNames,
                        {sq \in Range(SeqNames) : SeqDirExists(disk, gray_value, sq)})
             got == LoadSequences(disk, gray_value, seq_dirs,
                        [frames |-> <<>>, max_frames |-> <<>>, total |-> 0])
         IN  LoadGrays(disk, Tail(gray_values),
                 IF ~GrayDirExists(disk, gray_value) THEN acc
                 ELSE [frames |-> (gray_value :> got.frames) @@ acc.frames,
                       max_frames |-> (gray_value :> got.max_frames) @@ acc.max_frames,
                       total |-> acc.total + got.total])

\* an exception of load_and_resize_image leaves the loop over gray_values
StaticMasksRaise(disk, gray_values) ==
    \E gray_value \in Range(gray_values) : \E a \in MaskPath(disk, gray_value) :
        LoadRaises(a)

SequenceFramesRaise(disk, gray_values) ==
    \E a \in disk :
        /\ a.kind = "frame" /\ a.gray \in Range(gray_values)
        /\ IsIntText(a.seq) /\ IsIntText(a.stem)
        /\ LoadRaises(a)

(***************************************************************************)
(* MaskManager.get_frame                                                   *)
(***************************************************************************)
\* dict.get(key), None without the key
FrameAt_nearest(frames, frame_num) ==
    LET below == {n \in DOMAIN frames : n <= frame_num}
    IN  IF below = {} THEN NoImage
        ELSE SomeImage(frames[CHOOSE n \in below : \A k \in below : k <= n])

FrameAt(frames, frame_num) ==
    IF frame_num \in DOMAIN frames THEN SomeImage(frames[frame_num]) ELSE NoImage

\* line 148: the frame number looked up
actual_frame_unclamped(frame_num, max_frame) == frame_num

actual_frame(frame_num, max_frame) == Min(frame_num, max_frame)

\* [raised, frame]: the frame (or None) returned, or a KeyError
GetFrameIn(frames, max_frames, gray_value, seq_num, frame_num) ==
    IF gray_value \notin DOMAIN frames
    THEN [raised |-> FALSE, frame |-> NoImage]
    ELSE IF seq_num \notin DOMAIN frames[gray_value]
    THEN [raised |-> FALSE, frame |-> NoImage]
    ELSE IF gray_value \notin DOMAIN max_frames
    THEN [raised |-> TRUE, frame |-> NoImage]
    ELSE LET max_frame ==
                 IF seq_num \in DOMAIN max_frames[gray_value]
                 THEN max_frames[gray_value][seq_num] ELSE 0
         IN  IF max_frame = 0 THEN [raised |-> FALSE, frame |-> NoImage]
             ELSE [raised |-> FALSE,
                   frame |-> FrameAt(frames[gray_value][seq_num],
                                     actual_frame(frame_num, max_frame))]

\* get_frame of the manager self
get_frame_of(self, gray_value, seq_num, frame_num) ==
    GetFrameIn(self.sequence_frames, self.sequence_max_frames,
               gray_value, seq_num, frame_num)

\* the manager the variables hold
Self ==
    [config |-> config, mask_cache |-> mask_cache,
     sequence_frames |-> sequence_frames,
     sequence_max_frames |-> sequence_max_frames,
     results_index |-> results_index]

get_frame(gray_value, seq_num, frame_num) ==
    get_frame_of(Self, gray_value, seq_num, frame_num)

(***************************************************************************)
(* MaskManager.process_and_save                                            *)
(***************************************************************************)
Background == [p \in Pixels |-> 255]

\* key=lambda x: self.config.gray_indexes.get(x, 0)
SortKey(cfg, gray_value) ==
    IF gray_value \in DOMAIN cfg.gray_indexes THEN cfg.gray_indexes[gray_value] ELSE 0

\* reverse=True: a goes before b when its key is higher; equal keys keep
\* their order (the sort is stable)
StaysBefore_ascending(cfg, a, b) == SortKey(cfg, a) <= SortKey(cfg, b)

StaysBefore(cfg, a, b) == SortKey(cfg, a) >= SortKey(cfg, b)

RECURSIVE InsertSorted(_, _, _)
InsertSorted(cfg, sorted, x) ==
    IF sorted = <<>> THEN <<x>>
    ELSE IF StaysBefore(cfg, Head(sorted), x)
    THEN <<Head(sorted)>> \o InsertSorted(cfg, Tail(sorted), x)
    ELSE <<x>> \o sorted

RECURSIVE SortedBy(_, _, _)
SortedBy(cfg, gray_values, sorted) ==
    IF gray_values = <<>> THEN sorted
    ELSE SortedBy(cfg, Tail(gray_values), InsertSorted(cfg, sorted, Head(gray_values)))

sorted_gray_values(cfg) == SortedBy(cfg, cfg.gray_values, <<>>)

\* the frames get_frame finds for the (seq_num, frame_num) pairs of the state
RECURSIVE SequenceLayersOf(_, _, _)
SequenceLayersOf(self, gray_value, pairs) ==
    IF pairs = <<>> THEN <<>>
    ELSE LET frame == get_frame_of(self, gray_value, Head(pairs)[1], Head(pairs)[2]).frame
         IN  (IF frame.some THEN <<frame.img>> ELSE <<>>)
             \o SequenceLayersOf(self, gray_value, Tail(pairs))

SequenceLayers(gray_value, pairs) == SequenceLayersOf(Self, gray_value, pairs)

\* active_frames of one gray value: the static mask, then the sequence frames
active_frames_of(self, gray_value, state) ==
    (IF gray_value \in DOMAIN self.mask_cache
     THEN <<self.mask_cache[gray_value]>> ELSE <<>>)
    \o (IF gray_value \in DOMAIN state
        THEN SequenceLayersOf(self, gray_value, state[gray_value]) ELSE <<>>)

active_frames(gray_value, state) == active_frames_of(Self, gray_value, state)

\* final_mask[combined_mask > 0] = index
Stamped(final_mask, combined_mask, index) ==
    [p \in Pixels |-> IF combined_mask[p] > 0 THEN index ELSE final_mask[p]]

\* the loop over sorted_gray_values
RECURSIVE LayeredOf(_, _, _, _)
LayeredOf(self, gray_values, state, final_mask) ==
    IF gray_values = <<>> THEN final_mask
    ELSE LET gray_value == Head(gray_values)
             frames == active_frames_of(self, gray_value, state)
         IN  LayeredOf(self, Tail(gray_values), state,
                 IF frames # <<>> /\ gray_value \in DOMAIN self.config.gray_indexes
                 THEN Stamped(final_mask, maximum_reduce(frames),
                              self.config.gray_indexes[gray_value])
                 ELSE final_mask)

Layered(gray_values, state, final_mask) ==
    LayeredOf(Self, gray_values, state, final_mask)

\* The arrays active_frames holds are the cached objects themselves, not
\* copies: the static mask of the gray value, then the frame each pair finds.
RECURSIVE SequenceRefsOf(_, _, _)
SequenceRefsOf(self, gray_value, pairs) ==
    IF pairs = <<>> THEN <<>>
    ELSE LET seq_num == Head(pairs)[1]
             found == get_frame_of(self, gray_value, seq_num, Head(pairs)[2]).frame
         IN  (IF found.some
              THEN <<[kind |-> "frame", seq_num |-> seq_num,
                      frame_num |-> actual_frame(Head(pairs)[2],
                          self.sequence_max_frames[gray_value][seq_num])]>>
              ELSE <<>>)
             \o SequenceRefsOf(self, gray_value, Tail(pairs))

active_refs_of(self, gray_value, state) ==
    (IF gray_value \in DOMAIN self.mask_cache
     THEN <<[kind |-> "static", seq_num |-> 0, frame_num |-> 0]>> ELSE <<>>)
    \o (IF gray_value \in DOMAIN state
        THEN SequenceRefsOf(self, gray_value, state[gray_value]) ELSE <<>>)

\* lines 206-212: np.maximum.reduce makes a new array of several frames; a
\* single frame is used as it is, so combined_mask is the cached array
combined_ref(refs) ==
    IF Len(refs) = 1 THEN refs[1]
    ELSE [kind |-> "fresh", seq_num |-> 0, frame_num |-> 0]

\* line 218: the array that is assigned into
stamped_array_combined == "combined_mask"

stamped_array == "final_mask"

\* the caches after index is assigned into the array ref names
WrittenStore(store, gray_value, ref, index) ==
    IF ref.kind = "static"
    THEN [store EXCEPT !.mask_cache[gray_value] = Stamped(@, @, index)]
    ELSE IF ref.kind = "frame"
    THEN [store EXCEPT
            !.sequence_frames[gray_value][ref.seq_num][ref.frame_num] =
                Stamped(@, @, index)]
    ELSE store

\* the caches after the loop over sorted_gray_values
RECURSIVE StoreAfterOf(_, _, _, _)
StoreAfterOf(self, gray_values, state, store) ==
    IF gray_values = <<>> THEN store
    ELSE LET gray_value == Head(gray_values)
             refs == active_refs_of(self, gray_value, state)
         IN  StoreAfterOf(self, Tail(gray_values), state,
                 IF /\ stamped_array = "combined_mask"
                    /\ refs # <<>>
                    /\ gray_value \in DOMAIN self.config.gray_indexes
                 THEN WrittenStore(store, gray_value, combined_ref(refs),
                                   self.config.gray_indexes[gray_value])
                 ELSE store)

StoreAfter(state) ==
    StoreAfterOf(Self, sorted_gray_values(config), state,
                 [mask_cache |-> mask_cache, sequence_frames |-> sequence_frames])

\* a KeyError of get_frame leaves process_and_save
RenderRaisesOf(self, state) ==
    \E gray_value \in Range(self.config.gray_values) \cap DOMAIN state :
        \E i \in 1..Len(state[gray_value]) :
            get_frame_of(self, gray_value, state[gray_value][i][1],
                         state[gray_value][i][2]).raised

RenderRaises(state) == RenderRaisesOf(Self, state)

\* line 223: the number of the next result
next_index_skipping(index) == index + 2

next_index(index) == index + 1

\* process_and_save of the manager self: what it returns (ret, 0 for None),
\* the image it hands to cv2.imwrite, and whether it raised
ProcessAndSave(self, state) ==
    IF DOMAIN state = {}
    THEN [raised |-> FALSE, ret |-> 0, final_mask |-> Background]
    ELSE IF RenderRaisesOf(self, state)
    THEN [raised |-> TRUE, ret |-> 0, final_mask |-> Background]
    ELSE [raised |-> FALSE, ret |-> next_index(self.results_index),
          final_mask |-> LayeredOf(self, sorted_gray_values(self.config),
                                   state, Background)]

(***************************************************************************)
(* The state after construction.                                           *)
(***************************************************************************)
NoPoll ==
    [op |-> "none", pre_modified |-> 0, pre_state |-> PyNone,
     pre_reported |-> PyNone, pre_failed |-> FALSE, read |-> FALSE,
     current_state |-> PyNone, state |-> PyNone, changed |-> FALSE]

InitFileMonitor ==
    /\ log = [exists |-> FALSE, lines |-> <<>>, mtime |-> 0]
    /\ last_modified = 0
    /\ last_state = PyNone
    /\ reported = PyNone
    /\ parse_failed = FALSE
    /\ poll = NoPoll

\* the mask configurations a manager is built with
Index(i10, i20) == (10 :> i10) @@ (20 :> i20)

Configs == {
    [gray_values |-> <<10, 20>>, gray_indexes |-> Index(50, 10)],
    [gray_values |-> <<20, 10>>, gray_indexes |-> Index(50, 10)],
    [gray_values |-> <<20, 10>>, gray_indexes |-> (20 :> 50)]
}

NoRender ==
    [op |-> "none", state |-> <<>>, pre_index |-> 0, raised |-> FALSE,
     ret |-> 0, final_mask |-> Background, wrote |-> FALSE]

InitMaskManager(configs) ==
    /\ assets = {}
    /\ config \in configs
    /\ phase = "new"
    /\ mask_cache = <<>>
    /\ sequence_frames = <<>>
    /\ sequence_max_frames = <<>>
    /\ total_frames = 0
    /\ results_index = 0
    /\ returned = <<>>
    /\ render = NoRender

\* nothing has polled yet, no monitor is built, no image is loaded
NoCycle ==
    [op |-> "none", state |-> PyNone, updated |-> FALSE, called |-> FALSE,
     raised |-> FALSE, active |-> <<>>, paths |-> <<>>, handed |-> <<>>,
     pre_index |-> <<>>, pre_results |-> <<>>]

NoLoad ==
    [op |-> "none", source |-> Decoded(0, 0, <<>>), binary |-> <<>>, new_h |-> 0,
     raised |-> FALSE, final |-> NoImage, first |-> NoImage]

InitMonitorIdle ==
    /\ managers = <<>>
    /\ results = <<>>
    /\ running = "new"
    /\ errors = FALSE
    /\ cycle = NoCycle

InitImageIdle == image = NoLoad

\* no stepwise poll has begun
InitPollerIdle ==
    /\ pc = "exists"
    /\ sampled_modified = 0
    /\ read_state = PyNone
    /\ read_line = 0
    /\ reports = <<>>

InitWatcher ==
    /\ InitMonitorIdle
    /\ InitImageIdle
    /\ InitPollerIdle
    /\ InitFileMonitor
    /\ InitMaskManager({[gray_values |-> <<10, 20>>, gray_indexes |-> Index(50, 10)]})

InitManager ==
    /\ InitMonitorIdle
    /\ InitImageIdle
    /\ InitPollerIdle
    /\ InitFileMonitor
    /\ InitMaskManager(Configs)

(***************************************************************************)
(* The external writer of the log.                                         *)
(***************************************************************************)
\* append one line; opening for append creates a missing file
AppendLine ==
    /\ Len(log.lines) < MaxLines
    /\ \E text \in LineTexts, t \in Times :
          log' = [exists |-> TRUE, lines |-> Append(log.lines, text), mtime |-> t]
    /\ poll' = NoPoll
    /\ UNCHANGED <<last_modified, last_state, reported, parse_failed>>
    /\ UNCHANGED managerVars
    /\ UNCHANGED extVars

\* create an empty log
CreateEmptyLog ==
    /\ ~log.exists
    /\ \E t \in Times : log' = [exists |-> TRUE, lines |-> <<>>, mtime |-> t]
    /\ poll' = NoPoll
    /\ UNCHANGED <<last_modified, last_state, reported, parse_failed>>
    /\ UNCHANGED managerVars
    /\ UNCHANGED extVars

\* remove the log (rotation)
RemoveLog ==
    /\ log.exists
    /\ log' = [exists |-> FALSE, lines |-> <<>>, mtime |-> 0]
    /\ poll' = NoPoll
    /\ UNCHANGED <<last_modified, last_state, reported, parse_failed>>
    /\ UNCHANGED managerVars
    /\ UNCHANGED extVars

(***************************************************************************)
(* FileMonitor.check_for_updates                                           *)
(***************************************************************************)
\* what the latest poll saw and returned: (state, changed)
PollRecord(read, current_state, state, changed) ==
    [op |-> "poll", pre_modified |-> last_modified, pre_state |-> last_state,
     pre_reported |-> reported, pre_failed |-> parse_failed, read |-> read,
     current_state |-> current_state, state |-> state, changed |-> changed]

\* the guard of line 36
ModifiedChanged_always(current_modified, stored) == TRUE

ModifiedChanged(current_modified, stored) == current_modified # stored

\* the guard of line 38
IsNewState_truthy(current_state, stored) == Truthy(current_state)

IsNewState(current_state, stored) == Truthy(current_state) /\ current_state # stored

\* FileMonitor.check_for_updates, on the watcher's variables
CheckForUpdates ==
    /\ UNCHANGED log
    /\ IF ~log.exists
       THEN /\ poll' = PollRecord(FALSE, PyNone, PyNone, FALSE)
            /\ UNCHANGED <<last_modified, last_state, reported, parse_failed>>
       ELSE LET current_modified == log.mtime
            IN  IF ModifiedChanged(current_modified, last_modified)
                THEN LET current_state == get_last_state(log)
                     IN  /\ parse_failed' = (current_state = PyNone)
                         /\ IF IsNewState(current_state, last_state)
                            THEN /\ last_state' = current_state
                                 /\ last_modified' = current_modified
                                 /\ reported' = current_state
                                 /\ poll' = PollRecord(TRUE, current_state,
                                                       current_state, TRUE)
                            ELSE /\ last_modified' = current_modified
                                 /\ poll' = PollRecord(TRUE, current_state,
                                                       PyNone, FALSE)
                                 /\ UNCHANGED <<last_state, reported>>
                ELSE /\ poll' = PollRecord(FALSE, PyNone, PyNone, FALSE)
                     /\ UNCHANGED <<last_modified, last_state, reported,
                                    parse_failed>>

check_for_updates ==
    /\ CheckForUpdates
    /\ UNCHANGED managerVars
    /\ UNCHANGED extVars

NextWatcher ==
    \/ AppendLine
    \/ CreateEmptyLog
    \/ RemoveLog
    \/ check_for_updates

SpecWatcher == InitWatcher /\ [][NextWatcher]_vars

(***************************************************************************)
(* The mask assets, placed on disk before the manager starts.              *)
(***************************************************************************)
Img(a, b) == (1 :> a) @@ (2 :> b)

FrameImage(stem) ==
    CASE stem = "1" -> Img(255, 0)
      [] stem = "2" -> Img(0, 255)
      [] OTHER -> Img(255, 255)

\* sequence directories and frame files, decodable or not; a directory
\* 01 beside 1, names that are no numbers, and directories without files
\* files that are not canonical: gray pixels, too tall, too short, and so
\* wide that the scaled height is 0
OddAssets ==
    {Entry("bmp", 20, "", "", SomeImage(Decoded(2, 1, <<127, 128>>))),
     Entry("frame", 20, "0", "3", SomeImage(Decoded(3, 1, <<255, 0, 255>>))),
     Entry("frame", 20, "1", "1", SomeImage(Decoded(1, 1, <<200>>))),
     Entry("png", 20, "", "", SomeImage(Decoded(1, 2, <<255, 255>>)))}

FrameAssets ==
    {Entry("frame", 10, sq, st,
           IF ok THEN FileOf(FrameImage(st)) ELSE Unreadable) :
        sq \in {"0", "1"}, st \in {"1", "2", "3"}, ok \in BOOLEAN}
    \cup {Entry("frame", 20, "0", st,
                IF ok THEN FileOf(FrameImage(st)) ELSE Unreadable) :
            st \in {"1", "2"}, ok \in BOOLEAN}
    \cup {Entry("frame", 10, "01", "1", FileOf(Img(0, 255))),
          Entry("frame", 10, "0", "x", FileOf(Img(255, 255))),
          Entry("bmp", 10, "", "", FileOf(Img(255, 255)))}
    \cup {Entry("seqdir", 10, "0", "", Unreadable),
          Entry("seqdir", 10, "x", "", Unreadable),
          Entry("seqdir", 20, "x", "", Unreadable)}
    \cup {Entry("graydir", g, "", "", Unreadable) : g \in Grays}
    \cup OddAssets

\* static masks and frames with overlapping pixels
RenderAssets ==
    {Entry("bmp", g, "", "", c) :
        g \in Grays, c \in {FileOf(Img(255, 0)), FileOf(Img(255, 255)), Unreadable}}
    \cup {Entry("png", 10, "", "", FileOf(Img(0, 255)))}
    \cup {Entry("frame", g, "0", st, FileOf(FrameImage(st))) :
            g \in Grays, st \in {"1", "2"}}
    \cup {Entry("frame", 20, "1", "1", FileOf(Img(0, 255)))}

PlaceAsset(universe) ==
    /\ phase = "new"
    /\ Cardinality(assets) < MaxAssets
    /\ \E a \in universe :
          /\ \A b \in assets : ~SamePath(a, b)
          /\ assets' = assets \cup {a}
    /\ UNCHANGED <<config, phase, mask_cache, sequence_frames, sequence_max_frames,
                   total_frames, results_index, returned, render>>
    /\ UNCHANGED watcherVars
    /\ UNCHANGED extVars

PlaceFrameAsset == PlaceAsset(FrameAssets)

PlaceRenderAsset == PlaceAsset(RenderAssets)

(***************************************************************************)
(* TMPLMonitor._initialize_system: load_static_masks, then                 *)
(* load_sequence_frames (which only the first manager is given).           *)
(***************************************************************************)
\* an exception leaves TMPLMonitor.__init__: the program ends
load_static_masks ==
    /\ phase = "new"
    /\ IF StaticMasksRaise(assets, config.gray_values)
       THEN phase' = "crashed" /\ UNCHANGED mask_cache
       ELSE /\ phase' = "static"
            /\ mask_cache' = StaticMasks(assets, config.gray_values, mask_cache)
    /\ render' = NoRender
    /\ UNCHANGED <<assets, config, sequence_frames, sequence_max_frames,
                   total_frames, results_index, returned>>
    /\ UNCHANGED watcherVars
    /\ UNCHANGED extVars

\* the caches and the total after load_sequence_frames
LoadedSequences ==
    LoadGrays(assets, config.gray_values,
        [frames |-> sequence_frames, max_frames |-> sequence_max_frames, total |-> 0])

\* initialization is over before the first render
load_sequence_frames ==
    /\ phase = "static"
    /\ render = NoRender /\ results_index = 0
    /\ IF SequenceFramesRaise(assets, config.gray_values)
       THEN /\ phase' = "crashed"
            /\ UNCHANGED <<sequence_frames, sequence_max_frames, total_frames>>
       ELSE /\ phase' = "ready"
            /\ \E got \in {LoadedSequences} :
                  /\ sequence_frames' = got.frames
                  /\ sequence_max_frames' = got.max_frames
                  /\ total_frames' = got.total
    /\ render' = NoRender
    /\ UNCHANGED <<assets, config, mask_cache, results_index, returned>>
    /\ UNCHANGED watcherVars
    /\ UNCHANGED extVars

(***************************************************************************)
(* Renders.                                                                *)
(***************************************************************************)
\* the lists of active (seq_num, frame_num) pairs
ActiveLists == {
    <<>>,
    << <<0, 1>> >>,
    << <<0, 3>> >>,
    << <<0, 1>>, <<1, 1>> >>
}

\* the states handed to process_and_save: the empty dict, and dicts that give
\* the same list to every gray value they hold
RenderStates ==
    {<<>>} \cup UNION {{[g \in dom |-> a] : a \in ActiveLists} : dom \in {Grays, {20}}}

\* the render record of a call that returned ret (0 for None)
RenderRecord(state, raised, ret, final_mask, wrote) ==
    [op |-> "render", state |-> state, pre_index |-> results_index,
     raised |-> raised, ret |-> ret, final_mask |-> final_mask, wrote |-> wrote]

process_and_save ==
    /\ phase \in {"static", "ready"}
    /\ results_index < MaxResults
    /\ \E state \in RenderStates, write_ok \in BOOLEAN :
          IF DOMAIN state = {}
          THEN /\ render' = RenderRecord(state, FALSE, 0, Background, FALSE)
               /\ UNCHANGED <<results_index, returned, mask_cache, sequence_frames>>
          ELSE IF RenderRaises(state)
          THEN /\ render' = RenderRecord(state, TRUE, 0, Background, FALSE)
               /\ UNCHANGED <<results_index, returned, mask_cache, sequence_frames>>
          ELSE /\ render' = RenderRecord(state, FALSE, next_index(results_index),
                                Layered(sorted_gray_values(config), state, Background),
                                write_ok)
               /\ results_index' = next_index(results_index)
               /\ returned' = Append(returned, next_index(results_index))
               /\ \E after \in {StoreAfter(state)} :
                      /\ mask_cache' = after.mask_cache
                      /\ sequence_frames' = after.sequence_frames
    /\ UNCHANGED <<assets, config, phase, sequence_max_frames, total_frames>>
    /\ UNCHANGED watcherVars
    /\ UNCHANGED extVars

(***************************************************************************)
(* ImageProcessor.load_and_resize_image on the images a file can hold.     *)
(***************************************************************************)
PixelValues == {0, BINARY_THRESHOLD, BINARY_THRESHOLD + 1, 255}

Shapes ==
    {sh \in (1..MaxSourcePixels) \X (1..MaxSourcePixels) :
        sh[1] * sh[2] <= MaxSourcePixels}

\* every image of up to MaxSourcePixels pixels, every value of one pixel,
\* and larger images of one colour
SourceImages ==
    UNION {{Decoded(sh[1], sh[2], px) : px \in [1..(sh[1] * sh[2]) -> PixelValues]} :
              sh \in Shapes}
    \cup {Decoded(1, 1, <<v>>) : v \in 0..255}
    \cup {Decoded(sh[1], sh[2], [i \in 1..(sh[1] * sh[2]) |-> v]) :
            sh \in {<<2, 3>>, <<3, 2>>, <<4, 2>>, <<1, 7>>}, v \in {0, 255}}

LoadRecord(op, img, first) ==
    [op |-> op, source |-> img, binary |-> binarized(img.px),
     new_h |-> new_h(img.h, img.w, TARGET_SIZE[2]),
     raised |-> ResizeRaises(img),
     final |-> IF ResizeRaises(img) THEN NoImage ELSE canonical(img),
     first |-> first]

\* a file cv2.imread decodes
LoadImage ==
    /\ image.op = "none"
    /\ \E img \in SourceImages : image' = LoadRecord("load", img, NoImage)
    /\ UNCHANGED <<watcherVars, managerVars, monitorVars, pollerVars>>

\* a file cv2.imread returns None for
LoadUnreadable ==
    /\ image.op = "none"
    /\ image' = [NoLoad EXCEPT !.op = "unreadable"]
    /\ UNCHANGED <<watcherVars, managerVars, monitorVars, pollerVars>>

\* the returned image, written to a file as it is, is loaded again
LoadAgain ==
    /\ image.op = "load"
    /\ image.final.some
    /\ image' = LoadRecord("again",
                    Decoded(TARGET_SIZE[1], TARGET_SIZE[2], image.final.img),
                    image.final)
    /\ UNCHANGED <<watcherVars, managerVars, monitorVars, pollerVars>>

NextImage ==
    \/ LoadImage
    \/ LoadUnreadable
    \/ LoadAgain

SpecImage == InitWatcher /\ [][NextImage]_vars

NextFrames ==
    \/ PlaceFrameAsset
    \/ load_static_masks
    \/ load_sequence_frames

SpecFrames == InitManager /\ [][NextFrames]_vars

NextRender ==
    \/ PlaceRenderAsset
    \/ load_static_masks
    \/ load_sequence_frames
    \/ process_and_save

SpecRender == InitManager /\ [][NextRender]_vars

(***************************************************************************)
(* TMPLMonitor: the managers of the mask sets, built over the assets, and  *)
(* the polling loop.                                                       *)
(***************************************************************************)
\* the mask_configs a monitor is built with (their names differ)
MaskConfigLists == {
    << [gray_values |-> <<10, 20>>, gray_indexes |-> Index(50, 10)] >>,
    << [gray_values |-> <<10, 20>>, gray_indexes |-> Index(50, 10)],
       [gray_values |-> <<20>>, gray_indexes |-> (20 :> 30)] >>
}

MonitorAssets ==
    {Entry("bmp", 10, "", "", FileOf(Img(255, 255))),
     Entry("frame", 20, "0", "1", FileOf(Img(0, 255)))}

\* the lines the writer appends while a monitor runs
MonitorLines == {
    <<"[", "2", ",", " ", "0", "]">>,
    <<"[", "0", ",", " ", "3", "]">>,
    <<"[", "-1", ",", " ", "0", "]">>,
    <<"[", "1", ",", " ", "'a'", "]">>
}

PlaceMonitorAsset ==
    /\ running = "new"
    /\ PlaceAsset(MonitorAssets)

AppendMonitorLine ==
    /\ running = "running"
    /\ Len(log.lines) < MaxLines
    /\ \E text \in MonitorLines, t \in Times :
          log' = [exists |-> TRUE, lines |-> Append(log.lines, text), mtime |-> t]
    /\ poll' = NoPoll
    /\ UNCHANGED <<last_modified, last_state, reported, parse_failed>>
    /\ UNCHANGED <<managerVars, monitorVars, imageVars, pollerVars>>

\* MaskManager.__init__ and load_static_masks; load_sequence_frames when asked
NewManager(cfg, disk, with_frames) ==
    [config |-> cfg,
     mask_cache |-> StaticMasks(disk, cfg.gray_values, <<>>),
     sequence_frames |->
         IF with_frames
         THEN LoadGrays(disk, cfg.gray_values,
                  [frames |-> <<>>, max_frames |-> <<>>, total |-> 0]).frames
         ELSE <<>>,
     sequence_max_frames |->
         IF with_frames
         THEN LoadGrays(disk, cfg.gray_values,
                  [frames |-> <<>>, max_frames |-> <<>>, total |-> 0]).max_frames
         ELSE <<>>,
     results_index |-> 0]

\* line 48: next(iter(self.mask_managers.values())).load_sequence_frames()
LoadsFrames(i) == i = 1

\* TMPLMonitor.__init__ and _initialize_system
initialize_system ==
    /\ running = "new"
    /\ \E mask_configs \in MaskConfigLists :
          IF \/ \E i \in 1..Len(mask_configs) :
                    StaticMasksRaise(assets, mask_configs[i].gray_values)
             \/ \E i \in 1..Len(mask_configs) :
                    LoadsFrames(i) /\ SequenceFramesRaise(assets, mask_configs[i].gray_values)
          THEN running' = "crashed" /\ UNCHANGED managers
          ELSE /\ running' = "running"
               /\ managers' = [i \in 1..Len(mask_configs) |->
                                  NewManager(mask_configs[i], assets, LoadsFrames(i))]
    /\ UNCHANGED <<results, errors, cycle>>
    /\ UNCHANGED <<watcherVars, managerVars, imageVars, pollerVars>>

\* what iterating a value yields: the elements of a list, the keys of a
\* dict, the characters of a string (the strings here have one)
Iterated(v) ==
    CASE v.kind = "list" -> v.items
      [] v.kind = "dict" -> [i \in 1..Len(v.items) |-> v.items[i][1]]
      [] v.kind = "str" -> IF v.s = "" THEN <<>> ELSE <<PyStr(v.s)>>
      [] OTHER -> <<>>

\* iterating an int or None raises TypeError
Iterable(v) == v.kind \in {"list", "dict", "str"}

\* lines 65-68: active_sequences; frame_num > 0 raises TypeError for a
\* frame_num that is no number
IsActive_nonnegative(frame_num) == frame_num >= 0

IsActive(frame_num) == frame_num > 0

RECURSIVE ActiveSequences(_, _, _)
ActiveSequences(items, seq_num, active) ==
    IF items = <<>> THEN [raised |-> FALSE, active |-> active]
    ELSE IF Head(items).kind # "int" THEN [raised |-> TRUE, active |-> active]
    ELSE ActiveSequences(Tail(items), seq_num + 1,
             IF IsActive(Head(items).n)
             THEN Append(active, <<seq_num, Head(items).n>>) ELSE active)

\* lines 73-81: the loop over the managers; an exception of process_and_save
\* leaves it
RECURSIVE RenderAll(_, _, _, _)
RenderAll(mgrs, i, active, acc) ==
    IF i > Len(mgrs) THEN acc
    ELSE LET config_state == [g \in Range(mgrs[i].config.gray_values) |-> active]
             done == ProcessAndSave(mgrs[i], config_state)
             after == StoreAfterOf(mgrs[i], sorted_gray_values(mgrs[i].config),
                          config_state,
                          [mask_cache |-> mgrs[i].mask_cache,
                           sequence_frames |-> mgrs[i].sequence_frames])
         IN  IF done.raised
             THEN [acc EXCEPT !.raised = TRUE, !.handed = Append(@, config_state)]
             ELSE RenderAll(mgrs, i + 1, active,
                      [raised |-> FALSE,
                       handed |-> Append(acc.handed, config_state),
                       managers |-> IF done.ret > 0
                                    THEN [acc.managers EXCEPT
                                            ![i].results_index = done.ret,
                                            ![i].mask_cache = after.mask_cache,
                                            ![i].sequence_frames = after.sequence_frames]
                                    ELSE acc.managers,
                       results |-> IF done.ret > 0
                                   THEN (done.ret :> [owner |-> i, image |-> done.final_mask])
                                        @@ acc.results
                                   ELSE acc.results,
                       paths |-> Append(acc.paths, done.ret)])

\* line 55: not any(state)
NotAny_skipped(state) == FALSE

NotAny(state) == \A i \in 1..Len(Iterated(state)) : ~Truthy(Iterated(state)[i])

\* TMPLMonitor.process_state(state)
ProcessState(state) ==
    IF ~Truthy(state)
    THEN [raised |-> FALSE, active |-> <<>>, managers |-> managers,
          results |-> results, paths |-> <<>>, handed |-> <<>>]
    ELSE IF ~Iterable(state)
    THEN [raised |-> TRUE, active |-> <<>>, managers |-> managers,
          results |-> results, paths |-> <<>>, handed |-> <<>>]
    ELSE IF NotAny(state)
    THEN [raised |-> FALSE, active |-> <<>>, managers |-> managers,
          results |-> results, paths |-> <<>>, handed |-> <<>>]
    ELSE IF ActiveSequences(Iterated(state), 0, <<>>).raised
    THEN [raised |-> TRUE, active |-> <<>>, managers |-> managers,
          results |-> results, paths |-> <<>>, handed |-> <<>>]
    ELSE [active |-> ActiveSequences(Iterated(state), 0, <<>>).active]
         @@ RenderAll(managers, 1, ActiveSequences(Iterated(state), 0, <<>>).active,
                [raised |-> FALSE, managers |-> managers, results |-> results,
                 paths |-> <<>>, handed |-> <<>>])

\* lines 118-120: run() after an exception of the cycle
AfterError_stop == "stopped"

AfterError == "running"

CycleRecord(state, updated, called, raised, active, paths) ==
    [op |-> "cycle", state |-> state, updated |-> updated, called |-> called,
     raised |-> raised, active |-> active, paths |-> paths, handed |-> <<>>,
     pre_index |-> [i \in 1..Len(managers) |-> managers[i].results_index],
     pre_results |-> results]

\* one iteration of the loop of run(): check_for_updates, then process_state
\* for an update that is truthy
run ==
    /\ running = "running"
    /\ \A i \in 1..Len(managers) : managers[i].results_index < MaxResults
    /\ CheckForUpdates
    /\ IF poll'.changed /\ Truthy(poll'.state)
       THEN \E done \in {ProcessState(poll'.state)} :
               /\ managers' = done.managers
               /\ results' = done.results
               /\ errors' = (errors \/ done.raised)
               /\ running' = IF done.raised THEN AfterError ELSE "running"
               /\ cycle' = [CycleRecord(poll'.state, TRUE, TRUE, done.raised,
                                        done.active, done.paths)
                             EXCEPT !.handed = done.handed]
       ELSE /\ cycle' = CycleRecord(poll'.state, poll'.changed, FALSE, FALSE,
                                    <<>>, <<>>)
            /\ UNCHANGED <<managers, results, running, errors>>
    /\ UNCHANGED <<managerVars, imageVars, pollerVars>>

\* an iteration whose check_for_updates raises: the log is removed between
\* os.path.exists (line 32) and os.path.getmtime (line 35)
run_poll_raises ==
    /\ running = "running"
    /\ log.exists
    /\ log' = [exists |-> FALSE, lines |-> <<>>, mtime |-> 0]
    /\ poll' = NoPoll
    /\ cycle' = CycleRecord(PyNone, FALSE, FALSE, TRUE, <<>>, <<>>)
    /\ errors' = TRUE
    /\ running' = AfterError
    /\ UNCHANGED <<last_modified, last_state, reported, parse_failed>>
    /\ UNCHANGED <<managers, results>>
    /\ UNCHANGED <<managerVars, imageVars, pollerVars>>

\* KeyboardInterrupt ends run()
interrupt ==
    /\ running = "running"
    /\ running' = "stopped"
    /\ cycle' = [NoCycle EXCEPT !.op = "interrupt"]
    /\ poll' = NoPoll
    /\ UNCHANGED <<log, last_modified, last_state, reported, parse_failed>>
    /\ UNCHANGED <<managers, results, errors>>
    /\ UNCHANGED <<managerVars, imageVars, pollerVars>>

NextMonitor ==
    \/ PlaceMonitorAsset
    \/ AppendMonitorLine
    \/ initialize_system
    \/ run
    \/ run_poll_raises
    \/ interrupt

SpecMonitor == InitWatcher /\ [][NextMonitor]_vars

(***************************************************************************)
(* The monitor fed with states that switch every slot off.                 *)
(***************************************************************************)
MaxIdleLines == 3

\* a state with an active slot, the all-zero state and the empty list
IdleLines == {
    <<"[", "2", ",", " ", "0", "]">>,
    <<"[", "0", ",", " ", "0", ",", " ", "0", "]">>,
    <<"[", "]">>
}

AppendIdleLine ==
    /\ running = "running"
    /\ Len(log.lines) < MaxIdleLines
    /\ \E text \in IdleLines, t \in Times :
          log' = [exists |-> TRUE, lines |-> Append(log.lines, text), mtime |-> t]
    /\ poll' = NoPoll
    /\ UNCHANGED <<last_modified, last_state, reported, parse_failed>>
    /\ UNCHANGED <<managerVars, monitorVars, imageVars, pollerVars>>

NextIdle ==
    \/ PlaceMonitorAsset
    \/ AppendIdleLine
    \/ initialize_system
    \/ run

SpecIdle == InitWatcher /\ [][NextIdle]_vars

(***************************************************************************)
(* check_for_updates taken line by line, with the writer of the log        *)
(* appending between its lines.  Every append moves the modification time. *)
(***************************************************************************)
MaxAppends == 3

\* the lines the writer appends: two states, the empty list and a line
\* literal_eval rejects
WriterLines == {
    <<"[", "2", ",", " ", "0", "]">>,
    <<"[", "0", ",", " ", "0", ",", " ", "0", "]">>,
    <<"[", "]">>,
    <<"[", "1", ",", " ", "x", ",", " ", "3", "]">>
}

append_state ==
    /\ Len(log.lines) < MaxAppends
    /\ \E text \in WriterLines :
          log' = [exists |-> TRUE, lines |-> Append(log.lines, text),
                  mtime |-> log.mtime + 1]
    /\ UNCHANGED <<last_modified, last_state, reported, parse_failed, poll>>
    /\ UNCHANGED <<managerVars, monitorVars, imageVars, pollerVars>>

\* lines 32-33: os.path.exists; without the file the call returns (None, False)
poll_exists ==
    /\ pc = "exists"
    /\ pc' = IF log.exists THEN "getmtime" ELSE "exists"
    /\ UNCHANGED <<sampled_modified, read_state, read_line, reports>>
    /\ UNCHANGED <<watcherVars, managerVars, monitorVars, imageVars>>

\* lines 35-36: os.path.getmtime and the comparison with last_modified; the
\* call returns (None, False) for an unchanged time
poll_getmtime ==
    /\ pc = "getmtime"
    /\ sampled_modified' = log.mtime
    /\ pc' = IF ModifiedChanged(log.mtime, last_modified) THEN "read" ELSE "exists"
    /\ UNCHANGED <<read_state, read_line, reports>>
    /\ UNCHANGED <<watcherVars, managerVars, monitorVars, imageVars>>

\* line 37: get_last_state reads the file as it is now
poll_read ==
    /\ pc = "read"
    /\ read_state' = get_last_state(log)
    /\ read_line' = Len(log.lines)
    /\ pc' = "store"
    /\ UNCHANGED <<sampled_modified, reports>>
    /\ UNCHANGED <<watcherVars, managerVars, monitorVars, imageVars>>

\* lines 38-44: store and return
poll_store ==
    /\ pc = "store"
    /\ pc' = "exists"
    /\ last_modified' = sampled_modified
    /\ IF IsNewState(read_state, last_state)
       THEN /\ last_state' = read_state
            /\ reported' = read_state
            /\ reports' = Append(reports, read_line)
       ELSE UNCHANGED <<last_state, reported, reports>>
    /\ UNCHANGED <<log, parse_failed, poll>>
    /\ UNCHANGED <<sampled_modified, read_state, read_line>>
    /\ UNCHANGED <<managerVars, monitorVars, imageVars>>

PollStep == poll_exists \/ poll_getmtime \/ poll_read \/ poll_store

NextInterleave ==
    \/ append_state
    \/ poll_exists
    \/ poll_getmtime
    \/ poll_read
    \/ poll_store

SpecInterleave == InitWatcher /\ [][NextInterleave]_vars

\* run() polls again and again (while True, lines 108-113)
SpecInterleaveFair == SpecInterleave /\ WF_vars(PollStep)

(***************************************************************************)
(* The State Watcher's claims.                                             *)
(***************************************************************************)
Polled == poll.op = "poll"

\* the latest step was a poll that found the log with a new modification time
PolledChangedFile == Polled /\ log.exists /\ log.mtime # poll.pre_modified

ReturnedNoUpdate == poll.state = PyNone /\ ~poll.changed

\* what the text of one line encodes; None when it encodes nothing
ValueOfLine(text) ==
    LET r == literal_eval(strip(text)) IN IF r.ok THEN r.val ELSE PyNone

\* the value of the last line of the log, None without one
LastLineValue ==
    IF log.exists /\ Len(log.lines) > 0
    THEN ValueOfLine(log.lines[Len(log.lines)])
    ELSE PyNone

\* the last line of the log that holds any text, <<>> without one
RECURSIVE LastNonEmptyLine(_)
LastNonEmptyLine(lines) ==
    IF lines = <<>> THEN <<>>
    ELSE IF strip(lines[Len(lines)]) # <<>> THEN lines[Len(lines)]
    ELSE LastNonEmptyLine(SubSeq(lines, 1, Len(lines) - 1))

ZeroState == PyList(<<PyInt(0), PyInt(0), PyInt(0)>>)
State20 == PyList(<<PyInt(2), PyInt(0)>>)

\* C1: a poll that finds the last line encoding a list equal to the stored
\* last_state returns (None, False) and keeps last_state; and a changed=True
\* report never carries the state of the changed=True report before it.
C1_DuplicateStateSuppressed ==
    /\ (Polled /\ LastLineValue.kind = "list" /\ LastLineValue = poll.pre_state)
          => (ReturnedNoUpdate /\ last_state = poll.pre_state
              /\ reported = poll.pre_reported)
    /\ (Polled /\ poll.changed) => poll.state # poll.pre_reported

\* C1 witness: the same state was written twice in a row, the first copy was
\* reported, and the poll after the second copy reported nothing
C1_Witness ==
    /\ PolledChangedFile
    /\ Len(log.lines) = 2
    /\ ValueOfLine(log.lines[1]) = State20
    /\ ValueOfLine(log.lines[2]) = State20
    /\ poll.pre_state = State20
    /\ poll.pre_reported = State20
    /\ ReturnedNoUpdate

\* C2 (as claimed): a poll that sees a new modification time and a last line
\* encoding a list that differs from last_state stores the list and the time
\* and returns (list, True), whatever the length of the list.
C2_EveryNewListReported ==
    (PolledChangedFile /\ LastLineValue.kind = "list"
        /\ LastLineValue # poll.pre_state)
    => /\ poll.changed
       /\ poll.state = LastLineValue
       /\ last_state = LastLineValue
       /\ last_modified = log.mtime

\* C3 (as claimed): the first poll of a fresh watcher on a log whose only
\* line is [0, 0, 0] returns (None, False).
FirstPollOfZeroLog ==
    /\ Polled
    /\ poll.pre_modified = 0 /\ poll.pre_state = PyNone
    /\ poll.pre_reported = PyNone
    /\ log.exists
    /\ Len(log.lines) = 1
    /\ ValueOfLine(log.lines[1]) = ZeroState

C3_AllZeroNotReported == FirstPollOfZeroLog => ReturnedNoUpdate

\* C3 (amended): that first poll, when the log's modification time is not
\* the watcher's initial last_modified, returns ([0, 0, 0], True) and
\* stores [0, 0, 0] as last_state.
C3_AllZeroReported ==
    (FirstPollOfZeroLog /\ log.mtime # 0)
    => /\ poll.changed
       /\ poll.state = ZeroState
       /\ last_state = ZeroState
       /\ last_modified = log.mtime

C3_Witness == FirstPollOfZeroLog /\ log.mtime # 0 /\ poll.changed

\* a poll with a new modification time whose last line cannot be parsed
\* returns (None, False), keeps last_state and stores the modification time
C4_ParseFailureIsNoUpdate ==
    (PolledChangedFile /\ poll.read /\ poll.current_state = PyNone)
    => /\ ReturnedNoUpdate
       /\ last_state = poll.pre_state
       /\ last_modified = log.mtime

\* C4 (as claimed): a parse failure is no update, and the poll after the
\* log changed again, to a valid line that differs from last_state, reports
\* that line with changed=True.
C4_RetriedAfterParseFailure ==
    /\ C4_ParseFailureIsNoUpdate
    /\ (PolledChangedFile /\ poll.pre_failed /\ IsIntList(LastLineValue)
          /\ LastLineValue # poll.pre_state)
       => (poll.changed /\ poll.state = LastLineValue)

\* C5 (as claimed): the state a poll considers is the one the last line
\* holding any text encodes.
C5_LastNonEmptyLineConsidered ==
    (Polled /\ poll.read)
    => poll.current_state = ValueOfLine(LastNonEmptyLine(log.lines))

\* C6 (as claimed): only lists of integers are reported; any other last line
\* is a parse failure that returns (None, False) and keeps last_state.
C6_OnlyIntListsReported ==
    /\ (Polled /\ poll.changed) => IsIntList(poll.state)
    /\ last_state = PyNone \/ IsIntList(last_state)
    /\ (Polled /\ ~IsIntList(LastLineValue))
          => (ReturnedNoUpdate /\ last_state = poll.pre_state)

\* C7: a poll while the log does not exist, or while its modification time
\* equals last_modified, returns (None, False), reads nothing and leaves
\* last_modified and last_state as they were.
C7_UnchangedFileIsNoOp ==
    (Polled /\ (~log.exists \/ log.mtime = poll.pre_modified))
    => /\ ReturnedNoUpdate
       /\ ~poll.read
       /\ last_modified = poll.pre_modified
       /\ last_state = poll.pre_state

\* C7 witness: [2, 0] was reported and the unchanged log is polled again
C7_Witness ==
    /\ Polled
    /\ log.exists /\ log.mtime = poll.pre_modified
    /\ LastLineValue = State20
    /\ reported = State20 /\ last_state = State20
    /\ ~poll.changed

(***************************************************************************)
(* The Layer Store's and the Compositor's claims.                          *)
(***************************************************************************)
\* the arguments get_frame is asked with: known and unknown ones
GrayArgs == Grays \cup {30}
SeqArgs == {0, 1, 2}
FrameArgs == 0..5

\* the recorded maximum loaded frame number of a sequence, 0 without one
MaxFrameOf(g, sq) ==
    IF g \in DOMAIN sequence_max_frames /\ sq \in DOMAIN sequence_max_frames[g]
    THEN sequence_max_frames[g][sq] ELSE 0

\* what is on disk for the manager to find
KnownGray(g) == g \in Range(config.gray_values) /\ GrayDirExists(assets, g)

KnownSeq(g, sq) ==
    /\ KnownGray(g)
    /\ \E name \in Range(SeqNames) :
          IsIntText(name) /\ int(name) = sq /\ SeqDirExists(assets, g, name)

\* the numbers of the frame files of the sequence that cv2 can decode
DecodableFrames(g, sq) ==
    {int(a.stem) :
        a \in {b \in assets :
                  /\ b.kind = "frame" /\ b.gray = g /\ b.content.some
                  /\ IsIntText(b.seq) /\ IsIntText(b.stem)
                  /\ int(b.seq) = sq}}

\* C9: for every gray value g and sequence s with recorded maximum m > 0,
\* get_frame(g, s, f) for every f > m returns what get_frame(g, s, m)
\* returns (the last frame is held).
C9_FrameLookupClamps ==
    \A g \in GrayArgs, sq \in SeqArgs :
        MaxFrameOf(g, sq) > 0
        => \A f \in FrameArgs :
              f > MaxFrameOf(g, sq)
              => get_frame(g, sq, f) = get_frame(g, sq, MaxFrameOf(g, sq))

\* C9 witness: a loaded sequence whose last frame is 2, asked for frame 3
C9_Witness ==
    /\ phase = "ready"
    /\ \E g \in Grays, sq \in SeqArgs :
          /\ MaxFrameOf(g, sq) = 2
          /\ get_frame(g, sq, 3).frame.some
          /\ get_frame(g, sq, 3).frame = get_frame(g, sq, 2).frame
          /\ get_frame(g, sq, 1).frame.some
          /\ get_frame(g, sq, 1).frame # get_frame(g, sq, 2).frame

\* C10: get_frame never raises; it returns None for an unknown gray value,
\* for an unknown sequence number, for a sequence no frame was loaded for,
\* and for a frame number up to the maximum that was not loaded (a gap).
C10_AbsentFrames ==
    \A g \in GrayArgs, sq \in SeqArgs :
        LET m == MaxFrameOf(g, sq)
            cached == IF g \in DOMAIN sequence_frames
                         /\ sq \in DOMAIN sequence_frames[g]
                      THEN DOMAIN sequence_frames[g][sq] ELSE {}
            decodable == DecodableFrames(g, sq)
            unknown == ~KnownGray(g) \/ ~KnownSeq(g, sq)
        IN  \A f \in FrameArgs :
                LET got == get_frame(g, sq, f)
                IN  /\ ~got.raised
                    /\ (g \notin DOMAIN sequence_frames
                        \/ sq \notin DOMAIN sequence_frames[g]
                        \/ m = 0
                        \/ (f <= m /\ f \notin cached))
                       => ~got.frame.some
                    /\ (unknown \/ decodable = {} \/ (f <= m /\ f \notin decodable))
                       => ~got.frame.some

\* C10 witness: frames 1 and 3 of a sequence are loaded, frame 2 is not, and
\* get_frame returns None for frame 2
C10_Witness ==
    /\ phase = "ready"
    /\ \E g \in Grays, sq \in SeqArgs :
          /\ MaxFrameOf(g, sq) = 3
          /\ DOMAIN sequence_frames[g][sq] = {1, 3}
          /\ ~get_frame(g, sq, 2).frame.some
          /\ get_frame(g, sq, 1).frame.some
          /\ get_frame(g, sq, 3).frame.some

\* the gray value's layer (static mask or a frame the state selects) is on
\* at pixel p
LayerOn(state, g, p) ==
    \/ g \in DOMAIN mask_cache /\ mask_cache[g][p] > 0
    \/ /\ g \in DOMAIN state
       /\ \E i \in 1..Len(state[g]) :
             LET frame == get_frame(g, state[g][i][1], state[g][i][2]).frame
             IN  frame.some /\ frame.img[p] > 0

\* the mapped indexes of the configured gray values that are on at pixel p
IndexesOn(state, p) ==
    {config.gray_indexes[g] :
        g \in {h \in Range(config.gray_values) \cap DOMAIN config.gray_indexes :
                  LayerOn(state, h, p)}}

LowestIndexOn(state, p) ==
    IF IndexesOn(state, p) = {} THEN 255
    ELSE CHOOSE i \in IndexesOn(state, p) : \A j \in IndexesOn(state, p) : i <= j

Rendered == render.op = "render" /\ render.ret > 0

\* C8: every pixel of a rendered image holds the lowest mapped index among
\* the configured gray values whose layer is on there, and 255 where none
\* is; the order of config.gray_values plays no part.
C8_LowestIndexWins ==
    Rendered
    => \A p \in Pixels : render.final_mask[p] = LowestIndexOn(render.state, p)

\* C8 witness: gray 10 -> index 50 has a static mask only, gray 20 -> index 10
\* an active frame only; the result is 10 where the frame is on and 50 where
\* only the static mask is
C8_Witness ==
    /\ Rendered
    /\ config.gray_indexes = Index(50, 10)
    /\ DOMAIN mask_cache = {10}
    /\ mask_cache[10] = Img(255, 255)
    /\ active_frames(20, render.state) = <<Img(255, 0)>>
    /\ active_frames(10, render.state) = <<Img(255, 255)>>
    /\ render.final_mask = Img(10, 50)

\* C12: results_index starts at 0 and counts the paths returned: the k-th
\* call of process_and_save that returns a path returns number k; a call
\* that returns a path advances results_index by exactly 1 and a call that
\* returns None leaves it alone.
C12_OutputNumbering ==
    /\ Len(returned) = results_index
    /\ \A k \in 1..Len(returned) : returned[k] = k
    /\ render.op = "render"
       => IF render.ret > 0
          THEN render.ret = render.pre_index + 1 /\ results_index = render.ret
          ELSE results_index = render.pre_index

\* C12 witness: the second returned path is number 2
C12_Witness ==
    /\ render.op = "render"
    /\ render.pre_index = 1
    /\ render.ret = 2
    /\ returned = <<1, 2>>

\* C13: a call of process_and_save whose cv2.imwrite reported failure does
\* not return a path, and results_index does not pass a number whose file
\* was not written.
C13_WriteFailureSurfaces ==
    (render.op = "render" /\ ~render.wrote)
    => (render.ret = 0 /\ results_index = render.pre_index)

(***************************************************************************)
(* The Image Canonicalizer's claims.                                       *)
(***************************************************************************)
Loaded == image.op \in {"load", "again"}

\* round(n / d), halves to the even neighbour as Python's round
Round(n, d) ==
    IF 2 * (n % d) > d THEN n \div d + 1
    ELSE IF 2 * (n % d) < d THEN n \div d
    ELSE IF (n \div d) % 2 = 0 THEN n \div d ELSE n \div d + 1

\* C16: the first threshold of load_and_resize_image maps every source pixel
\* value v >= 127 to 255 and every other value to 0.
C16_BinarizeFrom127 ==
    Loaded
    => \A i \in DOMAIN image.source.px :
          image.binary[i] = IF image.source.px[i] >= 127 THEN 255 ELSE 0

\* C17: loading an image that load_and_resize_image returned gives the same
\* image again: the canonical image is left as it is, and canonicalizing
\* twice is canonicalizing once.
C17_CanonicalizationIdempotent ==
    image.op = "again"
    => /\ ~image.raised
       /\ image.final = image.first
       /\ image.final.img = image.source.px

\* C17 witness: an image that was cropped and binarized is loaded again
C17_Witness ==
    /\ image.op = "again"
    /\ image.first = SomeImage(<<255, 0>>)
    /\ image.final = SomeImage(<<255, 0>>)

\* C19: the height an image is resized to is round(h * W / w), for the
\* width W of the model and for W = 3840.
C19_RoundedHeight ==
    Loaded
    => /\ image.new_h
            = Round(image.source.h * TARGET_SIZE[2], image.source.w)
       /\ new_h(image.source.h, image.source.w, 3840)
            = Round(image.source.h * 3840, image.source.w)

Processed == cycle.op = "cycle" /\ cycle.called /\ ~cycle.raised

\* a list of integers with a frame number above 0
HasActiveSlot(v) ==
    IsIntList(v) /\ \E i \in 1..Len(v.items) : v.items[i].n > 0

\* C11: a cycle whose state has no (sequence, frame) pair renders nothing:
\* no manager returns a path, no result file is written and no
\* results_index moves.
C11_NoActivePairIsNoOp ==
    (Processed /\ cycle.active = <<>>)
    => /\ \A i \in 1..Len(cycle.paths) : cycle.paths[i] = 0
       /\ \A i \in 1..Len(managers) : managers[i].results_index = cycle.pre_index[i]
       /\ results = cycle.pre_results

\* C14: an exception of check_for_updates or process_state leaves the loop
\* running, and after one a poll that reads a new list with an active slot
\* still reports it and every manager renders it.
C14_LoopSurvivesErrors ==
    /\ (cycle.op = "cycle" /\ cycle.raised) => running = "running"
    /\ (/\ errors /\ cycle.op = "cycle"
        /\ Polled /\ poll.read
        /\ HasActiveSlot(poll.current_state)
        /\ poll.current_state # poll.pre_state)
       => /\ running = "running"
          /\ Processed
          /\ cycle.state = poll.current_state
          /\ Len(cycle.paths) = Len(managers)
          /\ \A i \in 1..Len(cycle.paths) : cycle.paths[i] > 0

\* C14 witness: process_state raised on [1, 'a'], and the next state of the
\* log, [0, 3], is rendered by every manager
C14_Witness ==
    /\ errors
    /\ Processed
    /\ poll.pre_state = PyList(<<PyInt(1), PyStr("a")>>)
    /\ cycle.state = PyList(<<PyInt(0), PyInt(3)>>)
    /\ Len(managers) = 2
    /\ \A i \in 1..Len(cycle.paths) : cycle.paths[i] > 0

\* C15: a cycle with an active slot leaves one result file per mask set:
\* every manager returned a path, the paths differ, and each file holds
\* what its manager wrote.
C15_OneResultPerMaskSet ==
    (Processed /\ cycle.active # <<>>)
    => /\ Len(cycle.paths) = Len(managers)
       /\ \A i \in 1..Len(cycle.paths) :
             /\ cycle.paths[i] > 0
             /\ cycle.paths[i] \in DOMAIN results
             /\ results[cycle.paths[i]].owner = i
       /\ \A i, j \in 1..Len(cycle.paths) : i # j => cycle.paths[i] # cycle.paths[j]

\* C20: once the monitor runs, every manager finds every decodable frame
\* file of its gray values with get_frame, and holds every decodable static
\* mask of its gray values.
C20_EveryStorePopulated ==
    running = "running"
    => \A i \in 1..Len(managers) : \A a \in assets :
          (a.gray \in Range(managers[i].config.gray_values) /\ a.content.some)
          => /\ a.kind = "frame"
                => get_frame_of(managers[i], a.gray, int(a.seq), int(a.stem)).frame.some
             /\ a.kind = "bmp" => a.gray \in DOMAIN managers[i].mask_cache

(***************************************************************************)
(* The Layer Store's invariants.                                           *)
(***************************************************************************)
\* C25: sequence_max_frames[g][s] = m exists only with a loaded frame of
\* (g, s); when m > 0 frame m is in sequence_frames[g][s], so get_frame
\* returns a frame for every f >= m; and sequence_max_frames[g] exists
\* whenever sequence_frames[g] does.
C25_MaxFrameIsLoaded ==
    /\ DOMAIN sequence_frames \subseteq DOMAIN sequence_max_frames
    /\ \A g \in DOMAIN sequence_max_frames :
          \A sq \in DOMAIN sequence_max_frames[g] :
              /\ g \in DOMAIN sequence_frames
              /\ sq \in DOMAIN sequence_frames[g]
              /\ DOMAIN sequence_frames[g][sq] # {}
              /\ sequence_max_frames[g][sq] > 0
                 => /\ sequence_max_frames[g][sq] \in DOMAIN sequence_frames[g][sq]
                    /\ \A f \in FrameArgs :
                          f >= sequence_max_frames[g][sq]
                          => /\ ~get_frame(g, sq, f).raised
                             /\ get_frame(g, sq, f).frame.some

\* C21: once the masks are loaded, no step of get_frame or process_and_save
\* changes mask_cache, sequence_frames or sequence_max_frames, also when a
\* gray value has one candidate layer, the cached array used as combined_mask.
C21_StoreReadOnly ==
    [][(phase \in {"static", "ready"} /\ phase' = phase)
       => (/\ mask_cache' = mask_cache
           /\ sequence_frames' = sequence_frames
           /\ sequence_max_frames' = sequence_max_frames)]_vars

\* a render stamped an index through the only candidate layer of a gray
\* value, a cached frame or a cached static mask, and a second render followed
C21_Witness ==
    /\ Rendered
    /\ render.pre_index > 0
    /\ \E g \in DOMAIN config.gray_indexes :
          /\ Len(active_frames(g, render.state)) = 1
          /\ combined_ref(active_refs_of(Self, g, render.state)).kind = "frame"
          /\ \E p \in Pixels : active_frames(g, render.state)[1][p] > 0
    /\ \E g \in DOMAIN config.gray_indexes :
          /\ Len(active_frames(g, render.state)) = 1
          /\ combined_ref(active_refs_of(Self, g, render.state)).kind = "static"
          /\ \E p \in Pixels : active_frames(g, render.state)[1][p] > 0

(***************************************************************************)
(* The derivation of the active sequences.                                 *)
(***************************************************************************)
\* the (slot, frame number) pairs of the slots of an integer list whose frame
\* number is above 0, slots counted from 0
ActiveSlots(v) ==
    {<<k - 1, v.items[k].n>> : k \in {j \in 1..Len(v.items) : v.items[j].n > 0}}

\* a list holds just the pairs of a set, in increasing slot order
ListsInSlotOrder(list, pairs) ==
    /\ {list[j] : j \in 1..Len(list)} = pairs
    /\ \A j, k \in 1..Len(list) : j < k => list[j][1] < list[k][1]

AllInactive(v) ==
    IsIntList(v) /\ \A i \in 1..Len(v.items) : v.items[i].n = 0

FinalLineIsState ==
    /\ log.exists
    /\ Len(log.lines) > 0
    /\ strip(log.lines[Len(log.lines)]) # <<>>
    /\ IsIntList(LastLineValue)

\* the poller is between two polls and has stored the file's current
\* modification time: when the writer stops here no poll changes anything
CaughtUp == log.exists /\ pc = "exists" /\ last_modified = log.mtime

\* C24: under every interleaving of appends with the lines of
\* check_for_updates, no appended line is reported twice, and once the
\* poller has caught up with a writer that stopped, last_state is the state
\* of the final line when that line is a valid, non-empty line.
C24_WriterInterleaving ==
    /\ \A j, k \in 1..Len(reports) : j # k => reports[j] # reports[k]
    /\ (CaughtUp /\ FinalLineIsState) => last_state = LastLineValue

\* what holds of it: a final line encoding a list with an element is stored
NonEmptyFinalStateStored ==
    <>[]((FinalLineIsState /\ Truthy(LastLineValue)) => last_state = LastLineValue)

====
